---- MODULE Spec2Model ----
(***************************************************************************)
(* Command registry and dispatcher of vimiv (vimiv/commands/commands.py).  *)
(*                                                                         *)
(* Python strings that the code inspects character by character (command   *)
(* lines, function names, command names, tokens, messages) are sequences   *)
(* of one-character strings.  Instance tags and modes, which the code only *)
(* stores and compares, are plain strings.                                 *)
(***************************************************************************)
EXTENDS Integers, Sequences, FiniteSets, TLC

(***************************************************************************)
(* Bounds of the model.                                                    *)
(***************************************************************************)
\* longest command line handed to run
MaxLineLen == 3
\* most argument declarations applied to one command
MaxArgs == 1

(***************************************************************************)
(* Character helpers: str.lower, str.upper, str.replace, str.strip,        *)
(* str.split, str.join, str.startswith as Python computes them.            *)
(***************************************************************************)
LowerCase == << "a","b","c","d","e","f","g","h","i","j","k","l","m",
                "n","o","p","q","r","s","t","u","v","w","x","y","z" >>
UpperCase == << "A","B","C","D","E","F","G","H","I","J","K","L","M",
                "N","O","P","Q","R","S","T","U","V","W","X","Y","Z" >>

\* the characters str.split() and str.strip() treat as whitespace
IsSpace(c) == c \in {" ", "\t", "\n", "\r"}

Lower(c) ==
    IF \E i \in 1..26 : UpperCase[i] = c
    THEN LowerCase[CHOOSE i \in 1..26 : UpperCase[i] = c]
    ELSE c

Upper(c) ==
    IF \E i \in 1..26 : LowerCase[i] = c
    THEN UpperCase[CHOOSE i \in 1..26 : LowerCase[i] = c]
    ELSE c

\* s.lower()
LowerStr(s) == [i \in 1..Len(s) |-> Lower(s[i])]

\* s.replace(old, new) for one-character old and new
ReplaceChar(s, old, new) == [i \in 1..Len(s) |-> IF s[i] = old THEN new ELSE s[i]]

\* s.startswith(p)
StartsWith(s, p) == Len(s) >= Len(p) /\ SubSeq(s, 1, Len(p)) = p

\* the concatenation of the strings of the sequence ss, sep between them
RECURSIVE Join(_, _)
Join(sep, ss) ==
    IF Len(ss) = 0 THEN << >>
    ELSE IF Len(ss) = 1 THEN ss[1]
    ELSE ss[1] \o sep \o Join(sep, Tail(ss))

(***************************************************************************)
(* shlex.split(text): the POSIX lexer with whitespace_split and no         *)
(* comment characters, over whitespace, the quote ' and word characters.   *)
(* state is " " (between tokens), "a" (in a word) or "'" (in a quote).     *)
(* The result is [ok |-> TRUE, tokens |-> ...], or ok = FALSE for the      *)
(* ValueError "No closing quotation".                                      *)
(***************************************************************************)
IsQuote(c) == c = "'"

RECURSIVE Lex(_, _, _, _, _, _)
Lex(text, i, state, token, quoted, acc) ==
    IF i > Len(text)
    THEN \* end of input
         IF state = "'" THEN [ok |-> FALSE, tokens |-> acc]
         ELSE IF token # << >> \/ quoted
              THEN [ok |-> TRUE, tokens |-> Append(acc, token)]
              ELSE [ok |-> TRUE, tokens |-> acc]
    ELSE LET c == text[i] IN
         CASE state = " " ->
                IF IsSpace(c) THEN Lex(text, i + 1, " ", << >>, FALSE, acc)
                ELSE IF IsQuote(c) THEN Lex(text, i + 1, "'", << >>, TRUE, acc)
                ELSE Lex(text, i + 1, "a", << c >>, FALSE, acc)
           [] state = "'" ->
                IF IsQuote(c) THEN Lex(text, i + 1, "a", token, TRUE, acc)
                ELSE Lex(text, i + 1, "'", Append(token, c), TRUE, acc)
           [] OTHER ->
                IF IsSpace(c)
                THEN IF token # << >> \/ quoted
                     THEN Lex(text, i + 1, " ", << >>, FALSE, Append(acc, token))
                     ELSE Lex(text, i + 1, " ", << >>, FALSE, acc)
                ELSE IF IsQuote(c) THEN Lex(text, i + 1, "'", token, TRUE, acc)
                ELSE Lex(text, i + 1, "a", Append(token, c), quoted, acc)

ShlexSplit(text) == Lex(text, 1, " ", << >>, FALSE, << >>)

(***************************************************************************)
(* Args.error(message): the message argparse built, normalised and raised  *)
(* as ArgumentError.                                                       *)
(***************************************************************************)
\* s.split(sep) for a one-character sep: the pieces between the separators
RECURSIVE SplitOn(_, _, _, _)
SplitOn(s, sep, i, cur) ==
    IF i > Len(s) THEN << cur >>
    ELSE IF s[i] = sep THEN << cur >> \o SplitOn(s, sep, i + 1, << >>)
    ELSE SplitOn(s, sep, i + 1, Append(cur, s[i]))

\* s.split(): the maximal runs of non-whitespace characters
RECURSIVE Words(_, _, _)
Words(s, i, cur) ==
    IF i > Len(s) THEN (IF cur = << >> THEN << >> ELSE << cur >>)
    ELSE IF IsSpace(s[i])
         THEN (IF cur = << >> THEN << >> ELSE << cur >>) \o Words(s, i + 1, << >>)
         ELSE Words(s, i + 1, Append(cur, s[i]))

\* s.strip()
RECURSIVE Strip(_)
Strip(s) ==
    IF s = << >> THEN s
    ELSE IF IsSpace(s[1]) THEN Strip(Tail(s))
    ELSE IF IsSpace(s[Len(s)]) THEN Strip(SubSeq(s, 1, Len(s) - 1))
    ELSE s

\* s.capitalize(): the first character upper-cased, all the others lower-cased
Capitalize(s) == [i \in 1..Len(s) |-> IF i = 1 THEN Upper(s[i]) ELSE Lower(s[i])]

ArgumentPrefix == << "a","r","g","u","m","e","n","t" >>

\* commands.py line 83: the pieces after the first ":" joined by spaces
DropArgname(message) == Join(<< " " >>, Tail(SplitOn(message, ":", 1, << >>)))

\* the message Args.error raises ArgumentError with
ArgsError(message) ==
    LET m1 == IF StartsWith(message, ArgumentPrefix) THEN DropArgname(message) ELSE message
        m2 == Strip(m1)
        m3 == Join(<< " " >>, Words(m2, 1, << >>))
    IN  Capitalize(m3)

(***************************************************************************)
(* Argument declarations and Args.parse_args (argparse.ArgumentParser).    *)
(* A declaration is [argname, optional, type]: argument(argname, optional, *)
(* type=...).  Every declaration takes one value (nargs is not given).     *)
(* The tokens are those of the model's command lines: they hold no "=", no  *)
(* digit and no "h", so none is "-h" or "--help", none abbreviates an       *)
(* option and none is a negative number.                                   *)
(***************************************************************************)
\* Python's None: a value that is no string
NoneVal == << "None" >>

\* the coercion functions given as type=: "str" is argparse's default (the
\* token itself), "direction" accepts the tokens of Directions and raises
\* argparse.ArgumentTypeError(InvalidDirection) on any other
Directions == { << "a" >> }
InvalidDirection ==
    << "I","n","v","a","l","i","d"," ","s","c","r","o","l","l"," ",
       "d","i","r","e","c","t","i","o","n" >>

\* argument.__init__: the name handed to add_argument
ArgName(decl) == IF decl.optional THEN << "-", "-" >> \o decl.argname ELSE decl.argname

\* the key of the parsed value in the keyword arguments
Dest(decl) == IF decl.optional THEN ReplaceChar(decl.argname, "-", "_") ELSE decl.argname

\* the option strings declared (beside the parser's own -h and --help)
OptionFlags(decls) == { ArgName(decls[i]) : i \in { j \in 1..Len(decls) : decls[j].optional } }

\* add_argument refuses an option string the parser already has
Conflicts(decls, decl) == decl.optional /\ ArgName(decl) \in OptionFlags(decls)

\* "O": a flag, "A": a value, "-": the first "--"; after it every token is a value
TokenClass(decls, t, afterDashes) ==
    IF afterDashes THEN "A"
    ELSE IF t = << "-", "-" >> THEN "-"
    ELSE IF t = << >> \/ t[1] # "-" THEN "A"
    ELSE IF t \in OptionFlags(decls) THEN "O"
    ELSE IF Len(t) = 1 THEN "A"
    ELSE IF \E i \in 1..Len(t) : t[i] = " " THEN "A"
    ELSE "O"

RECURSIVE Classes(_, _, _, _)
Classes(decls, tokens, i, afterDashes) ==
    IF i > Len(tokens) THEN << >>
    ELSE LET c == TokenClass(decls, tokens[i], afterDashes)
         IN  << c >> \o Classes(decls, tokens, i + 1, afterDashes \/ c = "-")

\* the declaration a flag token selects
FlagDecl(decls, t) ==
    decls[CHOOSE i \in 1..Len(decls) : decls[i].optional /\ ArgName(decls[i]) = t]

\* the type= function applied to one token: the value, or the message of the
\* error argparse reports for it
Coerce(decl, token) ==
    IF decl.type = "direction" /\ token \notin Directions
    THEN [ok |-> FALSE, msg |-> InvalidDirection]
    ELSE [ok |-> TRUE, value |-> token]

ArgumentErrorMsg(decl, msg) ==
    << "a","r","g","u","m","e","n","t"," " >> \o ArgName(decl) \o << ":", " " >> \o msg

ExpectedOne == << "e","x","p","e","c","t","e","d"," ","o","n","e"," ",
                  "a","r","g","u","m","e","n","t" >>
RequiredMsg ==
    << "t","h","e"," ","f","o","l","l","o","w","i","n","g"," ","a","r","g","u","m","e","n","t","s",
       " ","a","r","e"," ","r","e","q","u","i","r","e","d",":"," " >>
UnrecognizedMsg ==
    << "u","n","r","e","c","o","g","n","i","z","e","d"," ","a","r","g","u","m","e","n","t","s",":"," " >>

\* the end of the run of values (and "--") that starts at i
RECURSIVE RunEnd(_, _)
RunEnd(cls, i) == IF i > Len(cls) \/ cls[i] = "O" THEN i ELSE RunEnd(cls, i + 1)

\* the index of the first value at or after i
RECURSIVE NextValue(_, _)
NextValue(cls, i) == IF cls[i] = "A" THEN i ELSE NextValue(cls, i + 1)

\* _parse_known_args from token i on: pos are the positionals still to fill, ns
\* the namespace, extras the tokens nothing took.  The result is
\* [kind |-> "ok", kwargs], or [kind |-> "error", message] for a call of
\* Args.error(message).
RECURSIVE Consume(_, _, _, _, _, _, _)
Consume(decls, tokens, cls, i, pos, ns, extras) ==
    IF i > Len(tokens)
    THEN IF pos # << >>
         THEN [kind |-> "error",
               message |-> RequiredMsg \o Join(<< ",", " " >>, [k \in 1..Len(pos) |-> Dest(pos[k])])]
         ELSE IF extras # << >>
         THEN [kind |-> "error", message |-> UnrecognizedMsg \o Join(<< " " >>, extras)]
         ELSE [kind |-> "ok", kwargs |-> ns]
    ELSE IF cls[i] = "O"
    THEN IF tokens[i] \notin OptionFlags(decls)
         THEN \* no option of this parser: left for the unrecognized arguments
              Consume(decls, tokens, cls, i + 1, pos, ns, Append(extras, tokens[i]))
         ELSE LET decl == FlagDecl(decls, tokens[i])
                  end == RunEnd(cls, i + 1)
                  hasValue == \E k \in (i + 1)..(end - 1) : cls[k] = "A"
              IN  IF ~hasValue
                  THEN [kind |-> "error", message |-> ArgumentErrorMsg(decl, ExpectedOne)]
                  ELSE LET v == NextValue(cls, i + 1)
                           after == IF v + 1 < end /\ cls[v + 1] = "-" THEN v + 2 ELSE v + 1
                           c == Coerce(decl, tokens[v])
                       IN  IF ~c.ok
                           THEN [kind |-> "error", message |-> ArgumentErrorMsg(decl, c.msg)]
                           ELSE Consume(decls, tokens, cls, after, pos,
                                        [ns EXCEPT ![Dest(decl)] = c.value], extras)
    ELSE LET end == RunEnd(cls, i)
             hasValue == \E k \in i..(end - 1) : cls[k] = "A"
         IN  IF pos = << >> \/ ~hasValue
             THEN \* nothing to fill: the whole run is left over
                  Consume(decls, tokens, cls, end, pos, ns, extras \o SubSeq(tokens, i, end - 1))
             ELSE LET v == NextValue(cls, i)
                      after == IF v + 1 < end /\ cls[v + 1] = "-" THEN v + 2 ELSE v + 1
                      c == Coerce(pos[1], tokens[v])
                  IN  IF ~c.ok
                      THEN [kind |-> "error", message |-> ArgumentErrorMsg(pos[1], c.msg)]
                      ELSE Consume(decls, tokens, cls, after, Tail(pos),
                                   [ns EXCEPT ![Dest(pos[1])] = c.value], extras)

\* Args.parse_args(tokens) of a parser with the declarations decls
ParseArgs(decls, tokens) ==
    LET dests == { Dest(decls[i]) : i \in 1..Len(decls) }
        pos == SelectSeq(decls, LAMBDA d : ~d.optional)
    IN  Consume(decls, tokens, Classes(decls, tokens, 1, FALSE), 1, pos,
                [d \in dests |-> NoneVal], << >>)

(***************************************************************************)
(* The inputs: decorated functions, decorator arguments, command lines.    *)
(***************************************************************************)
\* A decorated function: its __name__, and what a call of it does: it
\* returns, raises CommandError, CommandWarning or another exception, or
\* (a stateful command, as the tests' exit) clears the object registry
\* and returns.  Two functions may bear the same name.
Funcs ==
    { [name |-> << "a" >>,      effect |-> "return"],
      [name |-> << "A" >>,      effect |-> "CommandError"],
      [name |-> << "a", "_" >>, effect |-> "CommandWarning"],
      [name |-> << "A", "_" >>, effect |-> "RuntimeError"],
      [name |-> << "a", "_" >>, effect |-> "clear"] }

Stateless(func) == func.effect # "clear"

\* the message of the CommandError or CommandWarning a function raises
TargetMessage == << "N","o"," ","i","m","a","g","e" >>

\* register(instance=None, mode="global")
NoInstance == "None"
Tags == { "image" }
Objects == { "widget" }
RegisterArgs == { [instance |-> NoInstance, mode |-> "global"],
                  [instance |-> "image", mode |-> "image"] }

\* argument(argname, optional, type=...)
Decls ==
    { [argname |-> << "d" >>, optional |-> FALSE, type |-> "direction"],
      [argname |-> << "a" >>, optional |-> TRUE,  type |-> "str"] }

LineChars == { "a", "-", " ", "'" }
Lines == UNION { [1..n -> LineChars] : n \in 0..MaxLineLen }

(***************************************************************************)
(* The state.                                                              *)
(***************************************************************************)
VARIABLES
    registry,   \* commands.registry: command name -> Command
    objreg,     \* objreg._registry: instance tag -> object
    registered, \* history: command name -> the latest register call of that name
    last        \* the call that has just returned or raised, until its caller goes on

vars == << registry, objreg, registered, last >>

\* A finished call: the operation, its argument, the events inside it in
\* order, the exception that left it ("none": it returned) and its value
\* (what it returned, or the message of the exception).
Call(op, arg, events, raised, value) ==
    [op |-> op, arg |-> arg, events |-> events, raised |-> raised, value |-> value]

\* no call is waiting for its caller
NoCall == Call("none", << >>, << >>, "none", << >>)

Idle == last.op = "none"

\* func.__name__.lower().replace("_", "-")
Canonical(fname) == ReplaceChar(LowerStr(fname), "_", "-")

\* Command.__init__
Command(name, func, instance, mode) ==
    [name |-> name, func |-> func, instance |-> instance, mode |-> mode, args |-> << >>]

\* the truth value of self._instance
Truthy(instance) == instance # NoInstance /\ instance # ""

\* a dict with value stored under key
Store(dict, key, value) ==
    [k \in DOMAIN dict \cup {key} |-> IF k = key THEN value ELSE dict[k]]

\* registry.setdefault(name, cmd): the first registration of a name stays
StoreCommandIfAbsent(reg, cmd) == IF cmd.name \in DOMAIN reg THEN reg ELSE Store(reg, cmd.name, cmd)

\* the declaration added to every command of the table
AddArgumentToAll(reg, funcname, decl) ==
    [k \in DOMAIN reg |-> [reg[k] EXCEPT !.args = Append(@, decl)]]

\* registry[name] = cmd
StoreCommand(reg, cmd) == Store(reg, cmd.name, cmd)

\* cmd.args.add_argument(argname, **kwargs) for the command stored under funcname
AddArgument(reg, funcname, decl) == [reg EXCEPT ![funcname].args = Append(@, decl)]

(***************************************************************************)
(* Command.__call__(args): the events of the call in order, the exception  *)
(* it ends with ("none": it returns) and the object registry after it.     *)
(***************************************************************************)
Emit(status, message) == [ev |-> "emit", status |-> status, message |-> message]

ParseEvent(cmd, args) == [ev |-> "parse", command |-> cmd.name, tokens |-> args]

GetEvent(tag) == [ev |-> "get", tag |-> tag]

CallEvent(func, receiver, kwargs) ==
    [ev |-> "call", func |-> func, receiver |-> receiver, kwargs |-> kwargs]

\* a dispatch that resolves the instance before it parses the arguments
CommandCallResolveFirst(cmd, args, oreg) ==
    LET parsed == ParseArgs(cmd.args, args)
        parse == ParseEvent(cmd, args)
    IN  IF Truthy(cmd.instance) /\ cmd.instance \notin DOMAIN oreg
        THEN [events |-> << GetEvent(cmd.instance) >>,
              exc |-> "KeyError", message |-> << >>, objreg |-> oreg]
        ELSE IF parsed.kind = "error"
        THEN [events |-> << parse >>, exc |-> "ArgumentError",
              message |-> ArgsError(parsed.message), objreg |-> oreg]
        ELSE [events |-> << parse, CallEvent(cmd.func, NoInstance, parsed.kwargs) >>,
              exc |-> "none", message |-> << >>, objreg |-> oreg]

\* self.func(obj, **kwargs) or self.func(**kwargs)
Invoke(func, oreg) ==
    CASE func.effect = "return" -> [exc |-> "none", message |-> << >>, objreg |-> oreg]
      [] func.effect = "clear"  -> [exc |-> "none", message |-> << >>, objreg |-> << >>]
      [] OTHER -> [exc |-> func.effect, message |-> TargetMessage, objreg |-> oreg]

CommandCall(cmd, args, oreg) ==
    LET parsed == ParseArgs(cmd.args, args)
        parse == ParseEvent(cmd, args)
    IN  IF parsed.kind = "error"
        THEN [events |-> << parse >>, exc |-> "ArgumentError",
              message |-> ArgsError(parsed.message), objreg |-> oreg]
        ELSE IF Truthy(cmd.instance)
        THEN IF cmd.instance \notin DOMAIN oreg
             THEN [events |-> << parse, GetEvent(cmd.instance) >>,
                   exc |-> "KeyError", message |-> << >>, objreg |-> oreg]
             ELSE LET r == Invoke(cmd.func, oreg)
                  IN  [events |-> << parse, GetEvent(cmd.instance),
                                     CallEvent(cmd.func, oreg[cmd.instance], parsed.kwargs) >>,
                       exc |-> r.exc, message |-> r.message, objreg |-> r.objreg]
        ELSE LET r == Invoke(cmd.func, oreg)
             IN  [events |-> << parse, CallEvent(cmd.func, NoInstance, parsed.kwargs) >>,
                  exc |-> r.exc, message |-> r.message, objreg |-> r.objreg]

\* an unknown command reported without its name
UnknownOutcomeUnnamed(cmdname) ==
    << Emit(1, << "u","n","k","n","o","w","n"," ","c","o","m","m","a","n","d" >>) >>

\* a warning reported as an error is: status 1, the command name in front
OutcomeWarningAsError(cmdname, exc, message) ==
    CASE exc = "none" -> [emits |-> << Emit(0, << >>) >>, raised |-> "none"]
      [] exc \in { "CommandError", "ArgumentError", "CommandWarning" } ->
           [emits |-> << Emit(1, cmdname \o << ":", " " >> \o message) >>, raised |-> "none"]
      [] OTHER -> [emits |-> << >>, raised |-> exc]

\* every exception caught and reported as an error
OutcomeCatchAll(cmdname, exc, message) ==
    CASE exc = "none" -> [emits |-> << Emit(0, << >>) >>, raised |-> "none"]
      [] exc = "CommandWarning" -> [emits |-> << Emit(2, message) >>, raised |-> "none"]
      [] OTHER ->
           [emits |-> << Emit(1, cmdname \o << ":", " " >> \o message) >>, raised |-> "none"]

UnknownCommand == << ":"," ","u","n","k","n","o","w","n"," ","c","o","m","m","a","n","d" >>

\* commands.py line 55
UnknownOutcome(cmdname) == << Emit(1, cmdname \o UnknownCommand) >>

\* commands.py lines 58-65: what run emits after cmd(args), and the exception
\* it lets through
Outcome(cmdname, exc, message) ==
    CASE exc = "none" -> [emits |-> << Emit(0, << >>) >>, raised |-> "none"]
      [] exc \in { "CommandError", "ArgumentError" } ->
           [emits |-> << Emit(1, cmdname \o << ":", " " >> \o message) >>, raised |-> "none"]
      [] exc = "CommandWarning" -> [emits |-> << Emit(2, message) >>, raised |-> "none"]
      [] OTHER -> [emits |-> << >>, raised |-> exc]

\* run(text): the events of the call, the exception that leaves it and the
\* object registry after it
RunResult(text, reg, oreg) ==
    IF text = << >> THEN [events |-> << >>, raised |-> "none", objreg |-> oreg]
    ELSE LET split == ShlexSplit(text) IN
         IF ~split.ok THEN [events |-> << >>, raised |-> "ValueError", objreg |-> oreg]
         ELSE IF split.tokens = << >>
         THEN [events |-> << >>, raised |-> "IndexError", objreg |-> oreg]
         ELSE LET cmdname == split.tokens[1]
                  args == Tail(split.tokens)
              IN  IF cmdname \notin DOMAIN reg
                  THEN [events |-> UnknownOutcome(cmdname), raised |-> "none", objreg |-> oreg]
                  ELSE LET c == CommandCall(reg[cmdname], args, oreg)
                           o == Outcome(cmdname, c.exc, c.message)
                       IN  [events |-> c.events \o o.emits, raised |-> o.raised,
                            objreg |-> c.objreg]

(***************************************************************************)
(* The operations.  The program is single-threaded: a call is made when no *)
(* other is waiting for its caller, and Resume is that caller going on.    *)
(***************************************************************************)
\* a run that drops the commands from the table
RunUnregistering(line) ==
    /\ Idle
    /\ LET r == RunResult(line, registry, objreg)
       IN  /\ last' = Call("run", line, r.events, r.raised, << >>)
           /\ objreg' = r.objreg
    /\ registry' = << >>
    /\ UNCHANGED registered

Run(line) ==
    /\ Idle
    /\ LET r == RunResult(line, registry, objreg)
       IN  /\ last' = Call("run", line, r.events, r.raised, << >>)
           /\ objreg' = r.objreg
    /\ UNCHANGED << registry, registered >>

\* register(instance, mode)(func); the call's event records the Command it replaces
Register(func, ra) ==
    /\ Idle
    /\ LET name == Canonical(func.name)
           replaced == IF name \in DOMAIN registry
                       THEN << [ev |-> "replaced", old |-> registry[name]] >>
                       ELSE << >>
       IN  /\ registry' = StoreCommand(registry, Command(name, func, ra.instance, ra.mode))
           /\ registered' = Store(registered, name, [func |-> func, ra |-> ra])
           /\ last' = Call("register", [func |-> func, ra |-> ra], replaced, "none", func)
    /\ UNCHANGED objreg

\* argument(argname, optional, type)(func)
Argument(func, decl) ==
    /\ Idle
    /\ LET funcname == Canonical(func.name)
           arg == [func |-> func, decl |-> decl]
       IN  IF funcname \notin DOMAIN registry
           THEN /\ registry' = registry
                /\ last' = Call("argument", arg, << >>, "ValueError", << >>)
           ELSE IF Conflicts(registry[funcname].args, decl)
           THEN /\ registry' = registry
                /\ last' = Call("argument", arg, << >>, "argparse.ArgumentError", << >>)
           ELSE /\ Len(registry[funcname].args) < MaxArgs
                /\ registry' = AddArgument(registry, funcname, decl)
                /\ last' = Call("argument", arg, << >>, "none", func)
    /\ UNCHANGED << objreg, registered >>

\* objreg.register(tag): an object is constructed and stored under its tag
RegisterObject(tag, obj) ==
    /\ Idle
    /\ objreg' = Store(objreg, tag, obj)
    /\ last' = Call("objreg.register", tag, << >>, "none", << >>)
    /\ UNCHANGED << registry, registered >>

\* objreg.clear()
Clear ==
    /\ Idle
    /\ objreg' = << >>
    /\ last' = Call("objreg.clear", << >>, << >>, "none", << >>)
    /\ UNCHANGED << registry, registered >>

Resume ==
    /\ ~Idle
    /\ last' = NoCall
    /\ UNCHANGED << registry, objreg, registered >>

Init ==
    /\ registry = << >>
    /\ objreg = << >>
    /\ registered = << >>
    /\ last = NoCall

Next ==
    \/ \E line \in Lines : Run(line)
    \/ \E func \in Funcs, ra \in RegisterArgs : Register(func, ra)
    \/ \E func \in Funcs, decl \in Decls : Argument(func, decl)
    \/ \E tag \in Tags, obj \in Objects : RegisterObject(tag, obj)
    \/ Clear
    \/ Resume

Spec == Init /\ [][Next]_vars

(***************************************************************************)
(* Properties of the dispatcher and the command table.                     *)
(***************************************************************************)
Emits(events) == SelectSeq(events, LAMBDA e : e.ev = "emit")

CallCount(events) == Cardinality({ i \in 1..Len(events) : events[i].ev = "call" })

GetCount(events) == Cardinality({ i \in 1..Len(events) : events[i].ev = "get" })

\* a step that is a call of run, of register, of argument
RunStep == Idle /\ last'.op = "run"
RegisterStep == Idle /\ last'.op = "register"
ArgumentStep == Idle /\ last'.op = "argument"

\* the line is empty or holds spaces and tabs only
IsBlank(line) == \A i \in 1..Len(line) : line[i] \in { " ", "\t" }

\* the line splits into tokens, the first of them the command name
HasName(line) == ShlexSplit(line).ok /\ ShlexSplit(line).tokens # << >>
NameOf(line) == ShlexSplit(line).tokens[1]
ArgsOf(line) == Tail(ShlexSplit(line).tokens)

\* the line names a command of the table reg
Dispatches(line, reg) == HasName(line) /\ NameOf(line) \in DOMAIN reg

\* cmd(args) gets as far as calling the target
ReachesTarget(cmd, args, oreg) ==
    /\ ParseArgs(cmd.args, args).kind = "ok"
    /\ Truthy(cmd.instance) => cmd.instance \in DOMAIN oreg

\* C1: run is a no-op for every empty and every whitespace-only line: it
\* returns normally, emits no outcome and invokes no target.
C1_BlankLineIsNoOp ==
    (last.op = "run" /\ IsBlank(last.arg)) => (last.raised = "none" /\ last.events = << >>)

\* C2: for a non-empty line whose first token is no key of the command
\* table, run emits exactly one outcome, (1, "<name>: unknown command"),
\* invokes no target, does not consult the object registry and leaves the
\* command table unchanged.
C2_UnknownCommand ==
    [][ (RunStep /\ HasName(last'.arg) /\ NameOf(last'.arg) \notin DOMAIN registry)
        => /\ last'.raised = "none"
           /\ last'.events = << Emit(1, NameOf(last'.arg) \o UnknownCommand) >>
           /\ CallCount(last'.events) = 0
           /\ GetCount(last'.events) = 0
           /\ registry' = registry
           /\ objreg' = objreg ]_vars

C2_Witness ==
    /\ last.op = "run"
    /\ registry # << >>
    /\ HasName(last.arg)
    /\ NameOf(last.arg) \notin DOMAIN registry
    /\ last.events = << Emit(1, NameOf(last.arg) \o UnknownCommand) >>

\* C3: dispatching a registered command, an ArgumentError (from parsing)
\* or a CommandError (from the target) becomes the one outcome
\* (1, "<name>: <message>"), a CommandWarning from the target the one
\* outcome (2, "<message>"), and none of them leaves run.
C3_RecoverableToOutcome ==
    [][ (RunStep /\ Dispatches(last'.arg, registry))
        => LET cmd == registry[NameOf(last'.arg)]
               args == ArgsOf(last'.arg)
               parsed == ParseArgs(cmd.args, args)
               called == ReachesTarget(cmd, args, objreg)
           IN  /\ parsed.kind = "error" =>
                    /\ last'.raised = "none"
                    /\ Emits(last'.events) =
                         << Emit(1, cmd.name \o << ":", " " >> \o ArgsError(parsed.message)) >>
               /\ (called /\ cmd.func.effect = "CommandError") =>
                    /\ last'.raised = "none"
                    /\ Emits(last'.events) =
                         << Emit(1, cmd.name \o << ":", " " >> \o TargetMessage) >>
               /\ (called /\ cmd.func.effect = "CommandWarning") =>
                    /\ last'.raised = "none"
                    /\ Emits(last'.events) = << Emit(2, TargetMessage) >> ]_vars

C3_Witness ==
    /\ last.op = "run"
    /\ Dispatches(last.arg, registry)
    /\ registry[NameOf(last.arg)].func.effect = "CommandWarning"
    /\ registry[NameOf(last.arg)].instance = "image"
    /\ last.raised = "none"
    /\ Emits(last.events) = << Emit(2, TargetMessage) >>

\* C4: any other exception that arises while a registered command is
\* dispatched (the LookupError of an instance tag the object registry does
\* not hold included) leaves run, and no outcome is emitted for that run.
C4_OtherExceptionsPropagate ==
    [][ (RunStep /\ Dispatches(last'.arg, registry))
        => LET cmd == registry[NameOf(last'.arg)]
               args == ArgsOf(last'.arg)
               parsed == ParseArgs(cmd.args, args)
           IN  /\ (parsed.kind = "ok" /\ Truthy(cmd.instance)
                                      /\ cmd.instance \notin DOMAIN objreg) =>
                    (last'.raised = "KeyError" /\ Emits(last'.events) = << >>)
               /\ (ReachesTarget(cmd, args, objreg) /\ cmd.func.effect = "RuntimeError") =>
                    (last'.raised = "RuntimeError" /\ Emits(last'.events) = << >>)
               /\ last'.raised # "none" => Emits(last'.events) = << >>
               /\ last'.raised \notin { "ArgumentError", "CommandError", "CommandWarning" } ]_vars

C4_Witness ==
    /\ last.op = "run"
    /\ Dispatches(last.arg, registry)
    /\ last.raised = "KeyError"
    /\ GetCount(last.events) = 1
    /\ Emits(last.events) = << >>

\* C5: the command table holds one Command per canonical name (the function
\* name lower-cased, "_" replaced by "-"), each key is its Command's name,
\* and the Command under a name is that of the latest registration of the
\* name: registering a name again replaces the Command, without an error,
\* by one with the later target, instance tag and mode and no arguments.
TableWellFormed ==
    /\ DOMAIN registry = DOMAIN registered
    /\ \A k \in DOMAIN registry :
         /\ registry[k].name = k
         /\ k = Canonical(registry[k].func.name)
         /\ \A i \in 1..Len(k) : k[i] # "_" /\ Lower(k[i]) = k[i]
         /\ registry[k].func = registered[k].func
         /\ registry[k].instance = registered[k].ra.instance
         /\ registry[k].mode = registered[k].ra.mode
    /\ \A j, k \in DOMAIN registry : registry[j].name = registry[k].name => j = k

C5_LatestRegistrationWins ==
    [][ /\ TableWellFormed'
        /\ RegisterStep =>
             LET name == Canonical(last'.arg.func.name)
             IN  /\ last'.raised = "none"
                 /\ DOMAIN registry' = DOMAIN registry \cup { name }
                 /\ registry'[name] = [name |-> name, func |-> last'.arg.func,
                                       instance |-> last'.arg.ra.instance,
                                       mode |-> last'.arg.ra.mode, args |-> << >>]
                 /\ \A k \in DOMAIN registry \ { name } : registry'[k] = registry[k] ]_vars

C5_Witness ==
    /\ last.op = "register"
    /\ last.events # << >>
    /\ last.events[1].old.args # << >>
    /\ last.events[1].old.func # last.arg.func
    /\ last.events[1].old.instance # last.arg.ra.instance
    /\ registry[Canonical(last.arg.func.name)].func = last.arg.func
    /\ registry[Canonical(last.arg.func.name)].args = << >>

\* the table reg with one declaration more for the command name, and nothing else changed
AppendsOne(reg, reg2, name, decl) ==
    /\ DOMAIN reg2 = DOMAIN reg
    /\ \A k \in DOMAIN reg \ { name } : reg2[k] = reg[k]
    /\ reg2[name].args = Append(reg[name].args, decl)
    /\ reg2[name].name = reg[name].name
    /\ reg2[name].func = reg[name].func
    /\ reg2[name].instance = reg[name].instance
    /\ reg2[name].mode = reg[name].mode

\* C6 as stated: declaring an argument for a function whose canonical name
\* has no Command fails with a configuration error and leaves the table
\* unchanged; when the Command exists it appends exactly one declaration to
\* that command's arguments only and returns the function unchanged.
C6_ArgumentAlwaysAppends ==
    [][ ArgumentStep =>
          LET name == Canonical(last'.arg.func.name)
          IN  IF name \notin DOMAIN registry
              THEN last'.raised = "ValueError" /\ registry' = registry
              ELSE /\ last'.raised = "none"
                   /\ last'.value = last'.arg.func
                   /\ AppendsOne(registry, registry', name, last'.arg.decl) ]_vars

\* C6 amended: as C6, but when the Command exists and its parser refuses
\* the declaration (an option flag the command already declares) the
\* parser's error leaves the call and the table is unchanged.
C6_ArgumentAppendsUnlessRefused ==
    [][ ArgumentStep =>
          LET name == Canonical(last'.arg.func.name)
              decl == last'.arg.decl
          IN  IF name \notin DOMAIN registry
              THEN last'.raised = "ValueError" /\ registry' = registry
              ELSE IF decl.optional
                      /\ \E i \in 1..Len(registry[name].args) :
                           /\ registry[name].args[i].optional
                           /\ registry[name].args[i].argname = decl.argname
              THEN last'.raised = "argparse.ArgumentError" /\ registry' = registry
              ELSE /\ last'.raised = "none"
                   /\ last'.value = last'.arg.func
                   /\ AppendsOne(registry, registry', name, decl) ]_vars

C6_Witness ==
    /\ last.op = "argument"
    /\ last.raised = "none"
    /\ Cardinality(DOMAIN registry) = 2
    /\ LET name == Canonical(last.arg.func.name)
       IN  /\ registry[name].args = << last.arg.decl >>
           /\ \E k \in DOMAIN registry \ { name } : registry[k].args = << >>

\* C8: for a valid line naming a registered stateless command, running the
\* line again emits the same outcome again, one outcome a run, and run
\* leaves the command table and the object registry as they were.
C8_RunIsIdempotent ==
    [][ (RunStep /\ Dispatches(last'.arg, registry)
                 /\ Stateless(registry[NameOf(last'.arg)].func)
                 /\ last'.raised = "none")
        => LET again == RunResult(last'.arg, registry', objreg')
           IN  /\ registry' = registry
               /\ objreg' = objreg
               /\ Len(Emits(last'.events)) = 1
               /\ again.raised = "none"
               /\ Emits(again.events) = Emits(last'.events)
               /\ again.objreg = objreg' ]_vars

C8_Witness ==
    /\ last.op = "run"
    /\ Dispatches(last.arg, registry)
    /\ Stateless(registry[NameOf(last.arg)].func)
    /\ registry[NameOf(last.arg)].instance = "image"
    /\ Emits(last.events) = << Emit(0, << >>) >>
    /\ Emits(RunResult(last.arg, registry, objreg).events) = << Emit(0, << >>) >>

\* C10: a registered command is dispatched in the order parse, resolve the
\* instance, invoke, emit.  When parsing fails the object registry is not
\* consulted and the target not invoked, so the outcome is the argument
\* error even if the tag is unregistered; the target is invoked at most
\* once, on the resolved instance when a tag is set; and (0, "") is emitted
\* exactly once, last, after the target returned.
C10_DispatchOrder ==
    [][ (RunStep /\ Dispatches(last'.arg, registry))
        => LET cmd == registry[NameOf(last'.arg)]
               args == ArgsOf(last'.arg)
               parsed == ParseArgs(cmd.args, args)
               ev == last'.events
               n == Len(ev)
           IN  /\ n >= 1 /\ ev[1] = ParseEvent(cmd, args)
               /\ parsed.kind = "error" =>
                    /\ n = 2 /\ ev[2].ev = "emit" /\ ev[2].status = 1
                    /\ GetCount(ev) = 0 /\ CallCount(ev) = 0
               /\ CallCount(ev) <= 1
               /\ Len(Emits(ev)) <= 1
               /\ \A i \in 1..n : ev[i].ev = "get" => (i = 2 /\ ev[i].tag = cmd.instance)
               /\ \A i \in 1..n : ev[i].ev = "call" =>
                    /\ ev[i].func = cmd.func
                    /\ ev[i].kwargs = parsed.kwargs
                    /\ IF Truthy(cmd.instance)
                       THEN i = 3 /\ ev[2] = GetEvent(cmd.instance)
                                  /\ ev[i].receiver = objreg[cmd.instance]
                       ELSE i = 2 /\ ev[i].receiver = NoInstance
               /\ \A i \in 1..n : ev[i].ev = "emit" => (i = n /\ last'.raised = "none")
               /\ \A i \in 1..n : ev[i] = Emit(0, << >>) =>
                    (ev[i - 1].ev = "call" /\ cmd.func.effect \in { "return", "clear" })
               /\ (ReachesTarget(cmd, args, objreg) /\ cmd.func.effect \in { "return", "clear" })
                    => (CallCount(ev) = 1 /\ ev[n] = Emit(0, << >>)) ]_vars

\* a parse error while the bound tag is not registered
C10_Witness ==
    /\ last.op = "run"
    /\ Dispatches(last.arg, registry)
    /\ registry[NameOf(last.arg)].instance = "image"
    /\ "image" \notin DOMAIN objreg
    /\ Len(last.events) = 2
    /\ last.events[1].ev = "parse"
    /\ last.events[2].ev = "emit" /\ last.events[2].status = 1

(***************************************************************************)
(* Args.error on its own: the messages argparse may hand it.               *)
(***************************************************************************)
\* longest message body
MaxMsgLen == 4

MsgChars == { "a", "B", " ", ":" }
MsgPrefixes == { << >>, << "a","r","g","u","m","e","n","t"," ","d" >> }
Messages ==
    { p \o b : p \in MsgPrefixes, b \in UNION { [1..n -> MsgChars] : n \in 0..MaxMsgLen } }

\* Args("cmd").error(message)
ErrorCall(message) ==
    /\ Idle
    /\ last' = Call("Args.error", message, << >>, "ArgumentError", ArgsError(message))
    /\ UNCHANGED << registry, objreg, registered >>

NextError ==
    \/ \E message \in Messages : ErrorCall(message)
    \/ Resume

SpecError == Init /\ [][NextError]_vars

\* the message has argparse's prefix "argument X:"
HasArgnamePrefix(message) ==
    StartsWith(message, ArgumentPrefix) /\ \E i \in 1..Len(message) : message[i] = ":"

\* what follows the first ":" of the message
RECURSIVE AfterColon(_)
AfterColon(message) ==
    IF message = << >> THEN << >>
    ELSE IF message[1] = ":" THEN Tail(message)
    ELSE AfterColon(Tail(message))

\* the first letter upper-cased, the others as they are
CapitalizeFirst(s) == [i \in 1..Len(s) |-> IF i = 1 THEN Upper(s[i]) ELSE s[i]]

\* C7: the message raised as ArgumentError is the parser's message with its
\* prefix "argument X:" stripped, runs of whitespace collapsed to one space
\* (none at the ends) and the first letter capitalized, the other
\* characters, their case and their ":" left as they were.
C7_MessageNormalised ==
    last.op = "Args.error" =>
        /\ last.raised = "ArgumentError"
        /\ last.value =
             CapitalizeFirst(Join(<< " " >>,
                 Words(IF HasArgnamePrefix(last.arg) THEN AfterColon(last.arg) ELSE last.arg,
                       1, << >>)))

(***************************************************************************)
(* argtypes.geometry(text), as the specification and the unit tests give   *)
(* it: "<width>x<height>" to (width, height).                              *)
(***************************************************************************)
\* longest text handed to geometry
MaxGeoLen == 4
\* largest dimension whose text is compared with its parse
MaxDim == 25

GeoChars == { "0", "1", "2", "x", "-", "a" }
GeoTexts == UNION { [1..n -> GeoChars] : n \in 0..MaxGeoLen }

Digits == << "0", "1", "2", "3", "4", "5", "6", "7", "8", "9" >>
IsDigit(c) == \E i \in 1..10 : Digits[i] = c
DigitValue(c) == (CHOOSE i \in 1..10 : Digits[i] = c) - 1

\* str(n) for n >= 0
RECURSIVE IntToStr(_)
IntToStr(n) ==
    IF n < 10 THEN << Digits[n + 1] >> ELSE Append(IntToStr(n \div 10), Digits[(n % 10) + 1])

\* the value of a run of digits
RECURSIVE DigitsValue(_)
DigitsValue(s) ==
    IF s = << >> THEN 0 ELSE 10 * DigitsValue(SubSeq(s, 1, Len(s) - 1)) + DigitValue(s[Len(s)])

AllDigits(s) == s # << >> /\ \A i \in 1..Len(s) : IsDigit(s[i])

\* int(s) accepts s: an optional sign, then digits
IsInt(s) == AllDigits(s) \/ (s # << >> /\ s[1] \in { "-", "+" } /\ AllDigits(Tail(s)))

\* int(s)
IntValue(s) ==
    IF s[1] = "-" THEN 0 - DigitsValue(Tail(s))
    ELSE IF s[1] = "+" THEN DigitsValue(Tail(s))
    ELSE DigitsValue(s)

HasSeparator(text) == \E i \in 1..Len(text) : text[i] = "x"

\* the index of the first "x"
FirstX(text) == CHOOSE i \in 1..Len(text) : text[i] = "x" /\ \A j \in 1..(i - 1) : text[j] # "x"

\* the sides of the first "x"
Width(text) == SubSeq(text, 1, FirstX(text) - 1)
Height(text) == SubSeq(text, FirstX(text) + 1, Len(text))

\* a geometry that lets a dimension of 0 through
GeometryNonNegative(text) ==
    IF ~HasSeparator(text)
    THEN [raised |-> "ArgumentTypeError", value |-> "form WIDTHxHEIGHT"]
    ELSE IF ~IsInt(Width(text)) \/ ~IsInt(Height(text))
    THEN [raised |-> "ValueError", value |-> "invalid literal"]
    ELSE IF IntValue(Width(text)) < 0 \/ IntValue(Height(text)) < 0
    THEN [raised |-> "ArgumentTypeError", value |-> "must be positive"]
    ELSE [raised |-> "none", value |-> << IntValue(Width(text)), IntValue(Height(text)) >>]

\* geometry(text): the exception it raises ("none": it returns) and its value
GeometryOf(text) ==
    IF ~HasSeparator(text)
    THEN [raised |-> "ArgumentTypeError", value |-> "form WIDTHxHEIGHT"]
    ELSE IF ~IsInt(Width(text)) \/ ~IsInt(Height(text))
    THEN [raised |-> "ValueError", value |-> "invalid literal"]
    ELSE IF IntValue(Width(text)) <= 0 \/ IntValue(Height(text)) <= 0
    THEN [raised |-> "ArgumentTypeError", value |-> "must be positive"]
    ELSE [raised |-> "none", value |-> << IntValue(Width(text)), IntValue(Height(text)) >>]

Geometry(text) ==
    /\ Idle
    /\ last' = Call("geometry", text, << >>, GeometryOf(text).raised, GeometryOf(text).value)
    /\ UNCHANGED << registry, objreg, registered >>

NextGeometry ==
    \/ \E text \in GeoTexts : Geometry(text)
    \/ Resume

SpecGeometry == Init /\ [][NextGeometry]_vars

\* C9: "<w>x<h>" with w, h > 0 yields (w, h); a text with the separator and
\* a side that is no integer fails with ValueError; a text without the
\* separator fails with the argument error "form WIDTHxHEIGHT"; a
\* well-formed text with a dimension <= 0 fails with the argument error
\* "must be positive"; every text has exactly one of these four results.
C9_Geometry ==
    last.op = "geometry" =>
        LET text == last.arg
            returned == last.raised = "none"
            form == last.raised = "ArgumentTypeError" /\ last.value = "form WIDTHxHEIGHT"
            positive == last.raised = "ArgumentTypeError" /\ last.value = "must be positive"
            invalid == last.raised = "ValueError"
            wellFormed == HasSeparator(text) /\ IsInt(Width(text)) /\ IsInt(Height(text))
        IN  /\ \A w, h \in 1..MaxDim :
                 text = IntToStr(w) \o << "x" >> \o IntToStr(h) =>
                     (returned /\ last.value = << w, h >>)
            /\ (HasSeparator(text) /\ ~wellFormed) => invalid
            /\ ~HasSeparator(text) => form
            /\ (wellFormed /\ (IntValue(Width(text)) <= 0 \/ IntValue(Height(text)) <= 0))
                 => positive
            /\ Cardinality({ b \in { <<1, returned>>, <<2, form>>, <<3, positive>>, <<4, invalid>> } :
                             b[2] }) = 1

C9_Witness ==
    /\ last.op = "geometry"
    /\ last.arg = << "1", "2", "x", "2" >>
    /\ last.raised = "none"
    /\ last.value = << 12, 2 >>

====
